---- MODULE Spec2Model ----
(***************************************************************************)
(* Model of the restaurant cart widget of src/script.js: the cart Map, the *)
(* rendered view, the payment-QR payload, and the handlers that drive them.*)
(* Money is counted in hundredths of a rupee, so that 80.5 is 8050 and the *)
(* roundings of toFixed(0) and toFixed(2) are computed, not assumed.       *)
(***************************************************************************)
EXTENDS Integers, Sequences, FiniteSets, TLC

VARIABLES cart, display, pc, alertMsg, lastOp, prevOp, eff, ret,
          firstPrice, insPrice, run, startupQR, order, before

vars == <<cart, display, pc, alertMsg, lastOp, prevOp, eff, ret,
          firstPrice, insPrice, run, startupQR, order, before>>

\* ---------------------------------------------------------------- bounds
MaxQty == 3
MaxDelta == 3

\* ---------------------------------------------------------------- inputs
Ids == {"A", "B"}
\* data-price attributes a menu card may carry; "<none>" is a missing attribute
PriceAttrs == {"<none>", "abc", "80.5", "-20", "50"}
\* Number(card.dataset.price): NaN, or the number in hundredths
Number(attr) ==
  CASE attr = "80.5" -> [nan |-> FALSE, val |-> 8050]
    [] attr = "-20" -> [nan |-> FALSE, val |-> -2000]
    [] attr = "50" -> [nan |-> FALSE, val |-> 5000]
    [] OTHER -> [nan |-> TRUE, val |-> 0]
Card(id, name, price) == [id |-> id, name |-> name, price |-> price]
\* well-formed menu cards; two cards carry id "A" with different name and price
GoodCards == {Card("A", "Dosa", "80.5"), Card("A", "Idli", "-20"), Card("B", "Vada", "50")}
\* cards with a missing id, a missing name, or a price that is not a number
BadCards == {Card("", "Dosa", "80.5"), Card("A", "", "80.5"),
             Card("A", "Dosa", "<none>"), Card("B", "Vada", "abc")}
Cards == GoodCards \cup BadCards
\* the items addToCart is called with
Items == {[id |-> c.id, name |-> c.name, price |-> Number(c.price).val] : c \in GoodCards}
Deltas == (-MaxDelta) .. MaxDelta
NoCard == [none |-> TRUE]
TargetKinds == {"increase", "decrease", "remove", "other"}

NoPrice == <<>>
NoRun == [n |-> 0]
NoMsg == [none |-> TRUE]
NoRet == [none |-> TRUE]

\* ---------------------------------------------------------------- formatting
Abs(x) == IF x < 0 THEN -x ELSE x

\* amount.toFixed(0): nearest integer, ties away from zero, sign kept
ToFixed0(amount) == [neg |-> amount < 0, units |-> (Abs(amount) + 50) \div 100]

\* amount.toFixed(2): the amount with exactly two decimals
ToFixed2(amount) ==
  [neg |-> amount < 0, units |-> Abs(amount) \div 100, cents |-> Abs(amount) % 100]

formatINR(amount) == <<"Rs", ToFixed0(amount)>>

\* ---------------------------------------------------------------- the Map
IndexOf(c, id) ==
  IF \E i \in DOMAIN c : c[i].id = id
  THEN CHOOSE i \in DOMAIN c : c[i].id = id
  ELSE 0

Has(c, id) == IndexOf(c, id) # 0

CartIds(c) == {c[i].id : i \in DOMAIN c}

\* a variant that cuts the Map off at the entry it deletes
MapDeleteFrom(c, id) ==
  IF \E i \in DOMAIN c : c[i].id = id
  THEN SubSeq(c, 1, (CHOOSE i \in DOMAIN c : c[i].id = id) - 1)
  ELSE c

\* cart.delete(id)
MapDelete(c, id) == SelectSeq(c, LAMBDA e : e.id # id)

\* a variant that lets a repeat add overwrite the stored price
BumpTakesPrice(c, i, item) ==
  [c EXCEPT ![i].quantity = @ + 1, ![i].price = item.price]

\* a variant that lets a repeat add overwrite the stored name
BumpTakesName(c, i, item) ==
  [c EXCEPT ![i].quantity = @ + 1, ![i].name = item.name]

\* a variant that re-inserts the entry on a repeat add, moving it to the end
BumpMovesLast(c, i, item) ==
  Append(SelectSeq(c, LAMBDA e : e.id # c[i].id), [c[i] EXCEPT !.quantity = @ + 1])

\* the existing branch of addToCart: existing.quantity += 1
BumpExisting(c, i, item) == [c EXCEPT ![i].quantity = @ + 1]

\* the insert branch of addToCart: cart.set(item.id, { ...item, quantity: 1 })
InsertNew(c, item) ==
  Append(c, [id |-> item.id, name |-> item.name, price |-> item.price, quantity |-> 1])

\* cart after addToCart(item)
CartAfterAdd(c, item) ==
  IF Has(c, item.id) THEN BumpExisting(c, IndexOf(c, item.id), item)
  ELSE InsertNew(c, item)

\* a variant that removes only below zero
RemovesBelowZero(newQty) == newQty < 0

\* the test of updateQuantity that decides removal
RemovesAt(newQty) == newQty <= 0

\* a variant that moves the quantity by one step in the direction of delta
CartAfterUnitStep(c, id, delta) ==
  LET i == IndexOf(c, id)
      newQty == c[i].quantity + (IF delta > 0 THEN 1 ELSE -1)
  IN IF newQty <= 0 THEN MapDelete(c, id)
     ELSE [c EXCEPT ![i].quantity = newQty]

\* cart after updateQuantity(id, delta) for an id that is present
CartAfterUpdate(c, id, delta) ==
  LET i == IndexOf(c, id)
      newQty == c[i].quantity + delta
  IN IF RemovesAt(newQty) THEN MapDelete(c, id)
     ELSE [c EXCEPT ![i].quantity = newQty]

\* a variant that takes one unit off instead of deleting the entry
CartAfterRemoveOne(c, id) == IF Has(c, id) THEN CartAfterUpdate(c, id, -1) ELSE c

\* cart after removeFromCart(id)
CartAfterRemove(c, id) == MapDelete(c, id)

\* a variant that drops only the oldest entry
CartAfterDropFirst(c) == IF Len(c) = 0 THEN c ELSE Tail(c)

\* cart after clearCart(): cart.clear()
CartAfterClear(c) == <<>>

\* a variant that forgets the quantity
AccumulatePrice(acc, item) == acc + item.price

\* the accumulation step of calculateTotals' forEach
Accumulate(acc, item) == acc + item.price * item.quantity

RECURSIVE SumFrom(_, _, _)
SumFrom(c, i, acc) ==
  IF i > Len(c) THEN acc ELSE SumFrom(c, i + 1, Accumulate(acc, c[i]))

\* a variant that adds a fee to the grand total
GrandWithFee(itemsTotal) == itemsTotal + 500

\* no-fee policy: const grandTotal = itemsTotal
GrandOf(itemsTotal) == itemsTotal

calculateTotals(c) ==
  LET itemsTotal == SumFrom(c, 1, 0)
  IN [itemsTotal |-> itemsTotal, grandTotal |-> GrandOf(itemsTotal)]

\* ---------------------------------------------------------------- rendering
\* the payload and the text updateQRCode(amount) puts on the page; the page is
\* taken to carry the #qrCodeImage element, so the early return is not taken
updateQRCode(amount) == [am |-> ToFixed2(amount), text |-> formatINR(amount)]

\* a variant that shows the unit price as the line total
RowUnitTotal(item) ==
  [id |-> item.id, name |-> item.name, quantity |-> item.quantity,
   price |-> formatINR(item.price), lineTotal |-> formatINR(item.price)]

\* one .cart-item-row of renderCart
Row(item) ==
  [id |-> item.id, name |-> item.name, quantity |-> item.quantity,
   price |-> formatINR(item.price),
   lineTotal |-> formatINR(item.price * item.quantity)]

\* a variant that never disables the buttons again
NeverDisabled(c) == FALSE

\* the flag renderCart gives checkoutBtn.disabled and clearCartBtn.disabled
DisabledFor(c) == Len(c) = 0

\* whether renderCart shows the .cart-empty message
EmptyShownFor(c) == Len(c) = 0

renderCart(c) ==
  LET t == calculateTotals(c)
  IN [rows |-> IF Len(c) = 0 THEN <<>> ELSE [i \in DOMAIN c |-> Row(c[i])],
      emptyShown |-> EmptyShownFor(c),
      checkoutDisabled |-> DisabledFor(c),
      clearDisabled |-> DisabledFor(c),
      itemsTotal |-> formatINR(t.itemsTotal),
      grandTotal |-> formatINR(t.grandTotal),
      qr |-> updateQRCode(t.grandTotal)]

\* whether the page carries the #qrCodeImage element updateQRCode looks up
QrImagePresent == TRUE

\* the page after renderCart(): without #qrCodeImage updateQRCode returns early
\* and the payload stays as it was
Rendered(old, c) ==
  IF QrImagePresent THEN renderCart(c) ELSE [renderCart(c) EXCEPT !.qr = old.qr]

\* the page as the markup ships it, before any script has rendered
Markup(e, d1, d2) ==
  [rows |-> <<>>, emptyShown |-> e, checkoutDisabled |-> d1, clearDisabled |-> d2,
   itemsTotal |-> <<>>, grandTotal |-> <<>>, qr |-> [none |-> TRUE]]

\* a variant that prints the unit price in place of the line total
SummaryLineUnit(item) ==
  [name |-> item.name, quantity |-> item.quantity, lineTotal |-> formatINR(item.price)]

\* the order summary the checkout handler builds
SummaryLine(item) ==
  [name |-> item.name, quantity |-> item.quantity,
   lineTotal |-> formatINR(item.price * item.quantity)]

RECURSIVE ItemLines(_, _, _)
ItemLines(c, i, lines) ==
  IF i > Len(c) THEN lines ELSE ItemLines(c, i + 1, Append(lines, SummaryLine(c[i])))

CheckoutMessage(c) ==
  LET t == calculateTotals(c)
  IN [lines |-> ItemLines(c, 1, <<>>),
      itemsTotal |-> formatINR(t.itemsTotal),
      grandTotal |-> formatINR(t.grandTotal)]

\* ---------------------------------------------------------------- state
Op(op, id, delta, name, price) ==
  [op |-> op, id |-> id, delta |-> delta, name |-> name, price |-> price]

NoOp == Op("none", "", 0, "", 0)

Init ==
  /\ cart = <<>>
  /\ \E e \in BOOLEAN, d1 \in BOOLEAN, d2 \in BOOLEAN : display = Markup(e, d1, d2)
  /\ pc = "loading"
  /\ alertMsg = NoMsg
  /\ lastOp = NoOp
  /\ prevOp = [op |-> "none", id |-> ""]
  /\ eff = [alerts |-> 0, renders |-> 0]
  /\ ret = NoRet
  /\ firstPrice = [i \in Ids |-> NoPrice]
  /\ insPrice = [i \in Ids |-> NoPrice]
  /\ run = NoRun
  /\ startupQR = <<>>
  /\ order = <<>>
  /\ before = <<>>

\* a variant in which the alert does not hold the page
DispatchableDuringAlert(p) == p # "loading"

\* the event loop hands over the next click only once the running handler has
\* returned; alert() keeps the checkout handler running until it is dismissed
Dispatchable(p) == p = "idle"

\* the ids of the entries now held, in the order of their cart.set
OrderAfter(o, newCart) == SelectSeq(o, LAMBDA i : Has(newCart, i))

\* bookkeeping every handler or call does: which call this is, which came before
Called(op) ==
  /\ lastOp' = op
  /\ prevOp' = [op |-> lastOp.op, id |-> lastOp.id]

\* a call that changes the Map and renders
Mutate(newCart) ==
  /\ cart' = newCart
  /\ display' = Rendered(display, newCart)
  /\ eff' = [alerts |-> 0, renders |-> 1]
  /\ insPrice' = [i \in Ids |-> IF Has(newCart, i) THEN insPrice[i] ELSE NoPrice]
  /\ order' = OrderAfter(order, newCart)
  /\ before' = <<>>
  /\ ret' = NoRet
  /\ UNCHANGED <<pc, alertMsg, startupQR>>

\* a handler that returns before touching anything
Ignore ==
  /\ eff' = [alerts |-> 0, renders |-> 0]
  /\ ret' = NoRet
  /\ run' = NoRun
  /\ before' = <<>>
  /\ UNCHANGED <<cart, display, pc, alertMsg, firstPrice, insPrice, startupQR, order>>

\* ---------------------------------------------------------------- startup
DOMContentLoaded ==
  /\ pc = "loading"
  /\ pc' = "idle"
  /\ Called(Op("DOMContentLoaded", "", 0, "", 0))
  /\ display' = IF QrImagePresent
                THEN [renderCart(cart) EXCEPT !.qr = updateQRCode(0)]
                ELSE Rendered(display, cart)
  /\ startupQR' = <<calculateTotals(cart).grandTotal, 0>>
  /\ eff' = [alerts |-> 0, renders |-> 1]
  /\ UNCHANGED <<cart, alertMsg, ret, firstPrice, insPrice, run, order, before>>

\* ---------------------------------------------------------------- Cart Logic
AddEffect(item) ==
  /\ cart' = CartAfterAdd(cart, item)
  /\ display' = Rendered(display, cart')
  /\ order' = IF Has(cart, item.id) THEN order ELSE Append(order, item.id)
  /\ before' = <<cart>>
  /\ eff' = [alerts |-> 0, renders |-> 1]
  /\ ret' = NoRet
  /\ firstPrice' = IF firstPrice[item.id] = NoPrice
                   THEN [firstPrice EXCEPT ![item.id] = <<item.price>>]
                   ELSE firstPrice
  /\ insPrice' = IF Has(cart, item.id) THEN insPrice
                 ELSE [insPrice EXCEPT ![item.id] = <<item.price>>]
  /\ run' = IF ~Has(cart, item.id)
            THEN [n |-> 1, id |-> item.id, name |-> item.name, price |-> item.price]
            ELSE IF run.n > 0 /\ run.id = item.id
                 THEN [run EXCEPT !.n = @ + 1]
                 ELSE NoRun
  /\ UNCHANGED <<pc, alertMsg, startupQR>>

CanAdd(id) == Has(cart, id) => cart[IndexOf(cart, id)].quantity < MaxQty

addToCart(item) ==
  /\ Dispatchable(pc)
  /\ CanAdd(item.id)
  /\ Called(Op("addToCart", item.id, 0, item.name, item.price))
  /\ AddEffect(item)

\* a variant that creates the entry when an absent id is increased
AbsentUpdateCreates(c, id, delta) ==
  IF delta > 0
  THEN Append(c, [id |-> id, name |-> "", price |-> 0, quantity |-> delta])
  ELSE c

\* cart after updateQuantity(id, delta) for an id that is absent: if (!item) return
AbsentUpdate(c, id, delta) == c

UpdateEffect(id, delta) ==
  IF Has(cart, id)
  THEN /\ Mutate(CartAfterUpdate(cart, id, delta))
       /\ run' = NoRun
       /\ UNCHANGED firstPrice
  ELSE /\ cart' = AbsentUpdate(cart, id, delta)
       /\ eff' = [alerts |-> 0, renders |-> 0]
       /\ ret' = NoRet
       /\ run' = NoRun
       /\ before' = <<>>
       /\ UNCHANGED <<display, pc, alertMsg, firstPrice, insPrice, startupQR, order>>

CanUpdate(id, delta) ==
  Has(cart, id) => cart[IndexOf(cart, id)].quantity + delta <= MaxQty

updateQuantity(id, delta) ==
  /\ Dispatchable(pc)
  /\ CanUpdate(id, delta)
  /\ Called(Op("updateQuantity", id, delta, "", 0))
  /\ UpdateEffect(id, delta)

RemoveEffect(id) ==
  /\ Mutate(CartAfterRemove(cart, id))
  /\ run' = NoRun
  /\ UNCHANGED firstPrice

removeFromCart(id) ==
  /\ Dispatchable(pc)
  /\ Called(Op("removeFromCart", id, 0, "", 0))
  /\ RemoveEffect(id)

ClearEffect ==
  /\ cart' = CartAfterClear(cart)
  /\ display' = Rendered(display, cart')
  /\ insPrice' = [i \in Ids |-> IF Has(cart', i) THEN insPrice[i] ELSE NoPrice]
  /\ order' = OrderAfter(order, CartAfterClear(cart))
  /\ before' = <<>>
  /\ ret' = NoRet
  /\ run' = NoRun
  /\ UNCHANGED <<firstPrice, startupQR>>

clearCart ==
  /\ Dispatchable(pc)
  /\ Called(Op("clearCart", "", 0, "", 0))
  /\ ClearEffect
  /\ eff' = [alerts |-> 0, renders |-> 1]
  /\ UNCHANGED <<pc, alertMsg>>

\* a call of calculateTotals() on its own; ret is what it returned
CalculateTotalsCall ==
  /\ Dispatchable(pc)
  /\ Called(Op("calculateTotals", "", 0, "", 0))
  /\ ret' = calculateTotals(cart)
  /\ eff' = [alerts |-> 0, renders |-> 0]
  /\ run' = NoRun
  /\ before' = <<>>
  /\ UNCHANGED <<cart, display, pc, alertMsg, firstPrice, insPrice, startupQR, order>>

\* ---------------------------------------------------------------- Event Listeners
\* a variant that does not test the price
CardOkAnyPrice(id, name, price) == ~(id = "" \/ name = "")

\* the test of the add button's handler that lets a card through
CardOk(id, name, price) == ~(id = "" \/ name = "" \/ price.nan)

MenuAddClick(card) ==
  /\ Dispatchable(pc)
  /\ IF card = NoCard
     THEN /\ Called(Op("menuAddClick", "", 0, "", 0))
          /\ Ignore
     ELSE LET id == card.id
              name == card.name
              price == Number(card.price)
          IN /\ Called([op |-> "menuAddClick", id |-> id, delta |-> 0, name |-> name,
                        price |-> price.val, nan |-> price.nan])
             /\ IF CardOk(id, name, price)
                THEN /\ CanAdd(id)
                     /\ AddEffect([id |-> id, name |-> name, price |-> price.val])
                ELSE Ignore

\* a click inside .cart-items: rowIx = 0 is a click outside every row
CartItemsClick(rowIx, kind) ==
  /\ Dispatchable(pc)
  /\ IF rowIx = 0
     THEN /\ Called(Op("cartItemsClick", "", 0, kind, 0))
          /\ Ignore
     ELSE LET id == display.rows[rowIx].id
          IN /\ Called(Op("cartItemsClick", id, 0, kind, 0))
             /\ CASE id = "" -> Ignore
                  [] id # "" /\ kind = "increase" ->
                       CanUpdate(id, 1) /\ UpdateEffect(id, 1)
                  [] id # "" /\ kind = "decrease" -> UpdateEffect(id, -1)
                  [] id # "" /\ kind = "remove" -> RemoveEffect(id)
                  [] OTHER -> Ignore

\* a variant without the guard
GuardNever(c) == FALSE

\* the guard of the clear and checkout handlers: if (cart.size === 0) return
GuardEmpty(c) == Len(c) = 0

ClearCartClick ==
  /\ Dispatchable(pc)
  /\ Called(Op("clearCartClick", "", 0, "", 0))
  /\ IF GuardEmpty(cart) THEN Ignore
     ELSE /\ ClearEffect
          /\ eff' = [alerts |-> 0, renders |-> 1]
          /\ UNCHANGED <<pc, alertMsg>>

\* the checkout handler up to alert(message), which blocks the page
CheckoutClick ==
  /\ Dispatchable(pc)
  /\ Called(Op("checkoutClick", "", 0, "", 0))
  /\ IF GuardEmpty(cart) THEN Ignore
     ELSE /\ alertMsg' = CheckoutMessage(cart)
          /\ pc' = "alert"
          /\ eff' = [alerts |-> 1, renders |-> 0]
          /\ ret' = NoRet
          /\ run' = NoRun
          /\ before' = <<>>
          /\ UNCHANGED <<cart, display, firstPrice, insPrice, startupQR, order>>

\* the alert is acknowledged and the handler goes on to clearCart()
CheckoutAck ==
  /\ pc = "alert"
  /\ pc' = "idle"
  /\ alertMsg' = NoMsg
  /\ ClearEffect
  /\ eff' = [eff EXCEPT !.renders = @ + 1]
  /\ UNCHANGED <<lastOp, prevOp>>

\* ---------------------------------------------------------------- specification
Next ==
  \/ DOMContentLoaded
  \/ \E item \in Items : addToCart(item)
  \/ \E id \in Ids, delta \in Deltas : updateQuantity(id, delta)
  \/ \E id \in Ids : removeFromCart(id)
  \/ clearCart
  \/ CalculateTotalsCall
  \/ \E card \in Cards \cup {NoCard} : MenuAddClick(card)
  \/ \E rowIx \in 0 .. Len(display.rows), kind \in TargetKinds : CartItemsClick(rowIx, kind)
  \/ ClearCartClick
  \/ CheckoutClick
  \/ CheckoutAck

Spec == Init /\ [][Next]_vars

\* the page driven by its listeners only
NextUI ==
  \/ DOMContentLoaded
  \/ \E card \in Cards \cup {NoCard} : MenuAddClick(card)
  \/ \E rowIx \in 0 .. Len(display.rows), kind \in TargetKinds : CartItemsClick(rowIx, kind)
  \/ ClearCartClick
  \/ CheckoutClick
  \/ CheckoutAck

SpecUI == Init /\ [][NextUI]_vars

\* ---------------------------------------------------------------- properties
Entry(c, id) == c[IndexOf(c, id)]

\* the sum of price x quantity over the entries, taken over the set of positions
RECURSIVE EntrySum(_, _)
EntrySum(c, S) ==
  IF S = {} THEN 0
  ELSE LET i == CHOOSE j \in S : TRUE
       IN c[i].price * c[i].quantity + EntrySum(c, S \ {i})

ExpectedTotals(c) ==
  [itemsTotal |-> EntrySum(c, DOMAIN c), grandTotal |-> EntrySum(c, DOMAIN c)]

\* C1: every entry held in the cart has quantity >= 1, whatever sequence of
\* addToCart, updateQuantity (any signed delta), removeFromCart, clearCart and
\* checkout led to the state.
C1_QuantityAtLeastOne == \A i \in DOMAIN cart : cart[i].quantity >= 1

\* an updateQuantity with delta <= -2 took an entry out while another one stays
C1_Witness ==
  /\ lastOp.op = "updateQuantity"
  /\ lastOp.delta <= -2
  /\ eff.renders = 1
  /\ ~Has(cart, lastOp.id)
  /\ cart # <<>>

\* C2 as stated: whenever an id is in the cart, its price is the price given at
\* the id's first insertion in the session.
C2_PriceOfFirstInsertion ==
  \A i \in DOMAIN cart : firstPrice[cart[i].id] = <<cart[i].price>>

\* C2 as amended: whenever an id is in the cart, its price is the price given
\* by the add call that inserted the entry now held; repeat adds of the id that
\* carry another price leave it alone.
C2_PriceOfCurrentInsertion ==
  \A i \in DOMAIN cart : insPrice[cart[i].id] = <<cart[i].price>>

\* a repeat add of an id in the cart carried a price other than the stored one
C2_Witness ==
  /\ lastOp.op = "addToCart"
  /\ Has(cart, lastOp.id)
  /\ Entry(cart, lastOp.id).quantity >= 2
  /\ Entry(cart, lastOp.id).price # lastOp.price

\* C3: after n >= 1 add calls in a row with id X, starting without X, the cart
\* holds exactly one entry for X, with quantity n and the name and price of the
\* first call.
C3_RepeatedAddCounts ==
  run.n > 0 =>
    /\ Cardinality({i \in DOMAIN cart : cart[i].id = run.id}) = 1
    /\ Entry(cart, run.id).quantity = run.n
    /\ Entry(cart, run.id).name = run.name
    /\ Entry(cart, run.id).price = run.price

\* three adds in a row of one id, the last one under another name
C3_Witness ==
  /\ run.n = 3
  /\ lastOp.op = "addToCart"
  /\ lastOp.name # run.name

\* C4: updateQuantity(id, delta) on an id present with quantity q removes the
\* entry when q + delta <= 0 and otherwise sets the quantity to q + delta.
C4_UpdateQuantityExact ==
  [][\A id \in Ids :
       (lastOp'.op = "updateQuantity" /\ lastOp'.id = id /\ Has(cart, id)) =>
         LET q == Entry(cart, id).quantity
             d == lastOp'.delta
         IN IF q + d <= 0 THEN ~Has(cart', id)
            ELSE Has(cart', id) /\ Entry(cart', id).quantity = q + d]_vars

\* an updateQuantity with delta 2 raised an entry to quantity 3
C4_Witness ==
  /\ lastOp.op = "updateQuantity"
  /\ lastOp.delta = 2
  /\ Has(cart, lastOp.id)
  /\ Entry(cart, lastOp.id).quantity = 3

\* C5: calculateTotals returns the sum of price x quantity as itemsTotal and
\* the same value as grandTotal, and a call changes neither cart nor display.
C5_TotalsAreTheSum ==
  /\ [](calculateTotals(cart) = ExpectedTotals(cart))
  /\ [][lastOp'.op = "calculateTotals" =>
          /\ ret' = ExpectedTotals(cart)
          /\ cart' = cart
          /\ display' = display]_vars

\* calculateTotals was called on a cart of two entries, one of them repeated
C5_Witness ==
  /\ lastOp.op = "calculateTotals"
  /\ ret = calculateTotals(cart)
  /\ Len(cart) = 2
  /\ \E i \in DOMAIN cart : cart[i].quantity >= 2

\* C6: clearCart leaves the cart without entries, and a calculateTotals call
\* right after it returns itemsTotal = 0 and grandTotal = 0.
C6_ClearEmpties ==
  [][/\ lastOp'.op = "clearCart" => cart' = <<>>
     /\ (lastOp.op = "clearCart" /\ lastOp'.op = "calculateTotals") =>
          ret' = [itemsTotal |-> 0, grandTotal |-> 0]]_vars

\* calculateTotals was called right after a clearCart, in a session that had entries
C6_Witness ==
  /\ lastOp.op = "calculateTotals"
  /\ prevOp.op = "clearCart"
  /\ ret = [itemsTotal |-> 0, grandTotal |-> 0]
  /\ \E id \in Ids : firstPrice[id] # NoPrice

\* C7: a second removeFromCart(id) right after the first changes neither the
\* cart nor the displayed view.
C7_RemoveIdempotent ==
  [][(lastOp.op = "removeFromCart" /\ lastOp' = lastOp) =>
       (cart' = cart /\ display' = display)]_vars

\* removeFromCart ran twice in a row on one id, another entry still in the cart
C7_Witness ==
  /\ lastOp.op = "removeFromCart"
  /\ prevOp = [op |-> "removeFromCart", id |-> lastOp.id]
  /\ cart # <<>>

\* C8: on an empty cart the checkout click and the clear click present no
\* alert, render nothing, and leave cart and display as they were.
C8_EmptyCartNoOp ==
  [][(lastOp'.op \in {"checkoutClick", "clearCartClick"} /\ pc = "idle" /\ cart = <<>>) =>
       /\ cart' = cart
       /\ display' = display
       /\ alertMsg' = NoMsg
       /\ pc' = "idle"
       /\ eff' = [alerts |-> 0, renders |-> 0]]_vars

\* a checkout click on an empty cart returned without an alert or a render
C8_Witness ==
  /\ lastOp.op = "checkoutClick"
  /\ pc = "idle"
  /\ cart = <<>>
  /\ eff = [alerts |-> 0, renders |-> 0]

ExpectedMessage(c) ==
  [lines |-> [i \in DOMAIN c |->
                [name |-> c[i].name, quantity |-> c[i].quantity,
                 lineTotal |-> formatINR(c[i].price * c[i].quantity)]],
   itemsTotal |-> formatINR(EntrySum(c, DOMAIN c)),
   grandTotal |-> formatINR(EntrySum(c, DOMAIN c))]

\* C9: a checkout click on a non-empty cart presents one alert, carrying one
\* line per entry and the totals of the cart as it is at the click; the cart is
\* cleared only once the alert is acknowledged, and is empty when the handler
\* ends.
C9_CheckoutConfirmsThenClears ==
  /\ [][(lastOp'.op = "checkoutClick" /\ pc = "idle" /\ cart # <<>>) =>
          /\ pc' = "alert"
          /\ eff'.alerts = 1
          /\ alertMsg' = ExpectedMessage(cart)
          /\ cart' = cart]_vars
  /\ [](pc = "alert" => (cart # <<>> /\ alertMsg = ExpectedMessage(cart)))
  /\ [][pc = "alert" => (pc' = "idle" /\ cart' = <<>> /\ eff'.alerts = 1)]_vars

\* the alert of a checkout is up, listing two entries
C9_Witness ==
  /\ pc = "alert"
  /\ alertMsg # NoMsg
  /\ Len(alertMsg.lines) = 2
  /\ Len(cart) = 2

\* C10: after the initial render and after every completed handler, checkout
\* and clear are enabled exactly when the cart is non-empty and the empty-cart
\* message is shown exactly when it is empty.
C10_ButtonsFollowCart ==
  pc = "idle" =>
    /\ display.checkoutDisabled = (cart = <<>>)
    /\ display.clearDisabled = (cart = <<>>)
    /\ display.emptyShown = (cart = <<>>)

\* a menu click filled the cart and the buttons are enabled
C10_Witness ==
  /\ pc = "idle"
  /\ lastOp.op = "menuAddClick"
  /\ cart # <<>>
  /\ ~display.checkoutDisabled
  /\ ~display.clearDisabled
  /\ ~display.emptyShown

\* C11: after the initial render and after every completed operation the view
\* shows the current cart: one row per entry, in place, with its quantity and
\* formatted line total; the formatted items total and grand total; and the
\* grand total, to two decimals, as the amount of the payment-QR payload.
C11_ViewInSync ==
  pc # "loading" =>
    /\ Len(display.rows) = Len(cart)
    /\ \A i \in DOMAIN cart :
         /\ display.rows[i].id = cart[i].id
         /\ display.rows[i].name = cart[i].name
         /\ display.rows[i].quantity = cart[i].quantity
         /\ display.rows[i].lineTotal = formatINR(cart[i].price * cart[i].quantity)
    /\ display.itemsTotal = formatINR(EntrySum(cart, DOMAIN cart))
    /\ display.grandTotal = formatINR(EntrySum(cart, DOMAIN cart))
    /\ display.qr.am = ToFixed2(EntrySum(cart, DOMAIN cart))

\* a decrease click on a cart of two entries was rendered, both rows kept
C11_Witness ==
  /\ lastOp.op = "cartItemsClick"
  /\ lastOp.name = "decrease"
  /\ eff.renders = 1
  /\ Len(display.rows) = 2
  /\ \E i \in DOMAIN cart : cart[i].quantity >= 2

\* C12 as stated: at startup updateQRCode is called once, with amount 0.
C12_CalledOnceWithZero ==
  pc # "loading" => (Len(startupQR) = 1 /\ startupQR[1] = 0)

\* C12 as amended: at startup updateQRCode is called twice, each time with
\* amount 0 (by the initial renderCart, then directly), and not before; right
\* after startup the payload carries amount 0.00.
C12_CalledTwiceWithZero ==
  /\ pc = "loading" => startupQR = <<>>
  /\ pc # "loading" => startupQR = <<0, 0>>
  /\ lastOp.op = "DOMContentLoaded" =>
       display.qr = [am |-> ToFixed2(0), text |-> formatINR(0)]

\* the page has just been loaded and no click has been handled yet
C12_Witness ==
  /\ lastOp.op = "DOMContentLoaded"
  /\ pc = "idle"
  /\ Len(startupQR) = 2
  /\ cart = <<>>

\* C13: the rows are shown in the order in which the entries now held were
\* inserted, and a step that keeps two entries (a repeat add, a quantity
\* adjustment) keeps their relative order.
C13_InsertionOrderKept ==
  /\ [](pc # "loading" => [i \in 1 .. Len(display.rows) |-> display.rows[i].id] = order)
  /\ [][\A a \in Ids, b \in Ids :
          (Has(cart, a) /\ Has(cart, b) /\ Has(cart', a) /\ Has(cart', b)) =>
            ((IndexOf(cart, a) < IndexOf(cart, b)) = (IndexOf(cart', a) < IndexOf(cart', b)))]_vars

\* after add X, add Y, a repeat add of X left X in the first row
C13_Witness ==
  /\ lastOp.op = "addToCart"
  /\ prevOp.op = "addToCart"
  /\ prevOp.id # lastOp.id
  /\ Len(display.rows) = 2
  /\ display.rows[1].id = lastOp.id
  /\ display.rows[1].quantity = 2
  /\ display.rows[2].quantity = 1

\* C14: updateQuantity(id, delta) with an id that is not in the cart changes
\* nothing for any delta: same cart, no new entry, no render.
C14_AbsentUpdateNoOp ==
  [][(lastOp'.op = "updateQuantity" /\ ~Has(cart, lastOp'.id)) =>
       /\ cart' = cart
       /\ display' = display
       /\ eff'.renders = 0]_vars

\* an increase of an id that is not in a non-empty cart returned without a render
C14_Witness ==
  /\ lastOp.op = "updateQuantity"
  /\ lastOp.delta > 0
  /\ ~Has(cart, lastOp.id)
  /\ eff.renders = 0
  /\ cart # <<>>

MalformedClick(o) == o.id = "" \/ o.name = "" \/ o.nan

\* C15: a click on a menu card with a missing id, a missing name or a price
\* that is not a number does not reach addToCart: cart and display stay as
\* they were and nothing is rendered.
C15_MalformedAddIgnored ==
  [][(lastOp'.op = "menuAddClick" /\ MalformedClick(lastOp')) =>
       /\ cart' = cart
       /\ display' = display
       /\ eff'.renders = 0]_vars

\* a click on a card whose price is not a number was ignored on a non-empty cart
C15_Witness ==
  /\ lastOp.op = "menuAddClick"
  /\ lastOp.id # ""
  /\ lastOp.name # ""
  /\ lastOp.nan
  /\ eff.renders = 0
  /\ cart # <<>>

\* C16: every entry reached through the add button has a non-negative price,
\* so the items total and the grand total are never negative.
C16_PricesNonNegative ==
  /\ \A i \in DOMAIN cart : cart[i].price >= 0
  /\ calculateTotals(cart).itemsTotal >= 0
  /\ calculateTotals(cart).grandTotal >= 0

\* C17: while the alert of a checkout is up no other handler runs: the only
\* step is the rest of that handler, and the entries it clears are the ones
\* listed in the alert.
C17_NoInterleavingInCheckout ==
  [][pc = "alert" =>
       /\ lastOp' = lastOp
       /\ pc' = "idle"
       /\ cart' = <<>>
       /\ Len(alertMsg.lines) = Len(cart)
       /\ \A i \in DOMAIN cart :
            /\ alertMsg.lines[i].name = cart[i].name
            /\ alertMsg.lines[i].quantity = cart[i].quantity]_vars

\* a checkout that followed a click in the cart has shown its alert and cleared
C17_Witness ==
  /\ lastOp.op = "checkoutClick"
  /\ prevOp.op = "cartItemsClick"
  /\ pc = "idle"
  /\ eff = [alerts |-> 1, renders |-> 1]
  /\ cart = <<>>

\* C18: addToCart, updateQuantity and removeFromCart on one id neither add,
\* remove nor change the entry of any other id.
C18_OtherEntriesUntouched ==
  [][\A o \in Ids :
       (lastOp'.op \in {"addToCart", "updateQuantity", "removeFromCart"} /\ o # lastOp'.id) =>
         /\ Has(cart, o) = Has(cart', o)
         /\ Has(cart, o) => Entry(cart, o) = Entry(cart', o)]_vars

\* an id was added and then removed while another entry of quantity >= 2 stays
C18_Witness ==
  /\ lastOp.op = "removeFromCart"
  /\ prevOp = [op |-> "addToCart", id |-> lastOp.id]
  /\ Len(cart) = 1
  /\ cart[1].quantity >= 2

\* C19: addToCart(item) followed at once by updateQuantity(item.id, -1) leaves
\* the cart exactly as it was before the add, entries and order alike.
C19_AddThenDecrementRestores ==
  [][(before # <<>> /\ lastOp'.op = "updateQuantity" /\ lastOp'.id = lastOp.id
        /\ lastOp'.delta = -1) =>
       cart' = before[1]]_vars

\* an id new to a non-empty cart was added and decremented right away
C19_Witness ==
  /\ lastOp.op = "updateQuantity"
  /\ lastOp.delta = -1
  /\ prevOp = [op |-> "addToCart", id |-> lastOp.id]
  /\ ~Has(cart, lastOp.id)
  /\ cart # <<>>

====
